---------------------------- MODULE Spec2Model ----------------------------
(***************************************************************************)
(* A model of src/src/main.rs: the identifier normalizer (snake_case), the *)
(* value renderer (trait ToSql and its implementations), the predicate     *)
(* (SQLFilter / Filter::apply_filter) and the statement assembler          *)
(* (SQLable).                                                              *)
(*                                                                         *)
(* A Rust String is a sequence of chars.  A char is written as a TLA+      *)
(* string: an ASCII char as itself ("a", "\n"), any other char by its code *)
(* point ("U+0130").  An Option<T> is a sequence of length at most one.    *)
(* Numerics are integers.  The ToSql implementations for chrono::Date and  *)
(* chrono::DateTime format through the chrono crate and then render as a   *)
(* String; they are not modelled.                                          *)
(***************************************************************************)
EXTENDS Integers, Sequences, FiniteSets, TLC

VARIABLES
    table,      \* SQLable.table
    cols,       \* SQLable.cols   : Option<Vec<String>>
    filter,     \* SQLable.filter : Option<Vec<Box<dyn Filter>>>
    hist,       \* the arguments of new and of the last select and filter calls
    sqlfilter,  \* an SQLFilter<T> value { column, filter, cmp }
    name,       \* the argument of snake_case
    call,       \* the function or method called last
    ret         \* the text it returned (NoText when it returns no text)

vars == <<table, cols, filter, hist, sqlfilter, name, call, ret>>

(***************************************************************************)
(* Bounds of the model.                                                    *)
(***************************************************************************)
MaxNameLen == 3     \* longest enumerated argument of snake_case
MaxVecLen == 2      \* longest enumerated Vec<T> filter value
MaxCols == 2        \* longest projection passed to select
MaxPreds == 2       \* longest predicate list passed to filter

(***************************************************************************)
(* Option<T>                                                               *)
(***************************************************************************)
None == <<>>
Some(x) == <<x>>
is_none(o) == Len(o) = 0
unwrap(o) == o[1]

\* All sequences over S of length at most n.
SeqsUpTo(S, n) == UNION {[1..k -> S] : k \in 0..n}

\* The value of `ret` after a call that returns no text.
NoText == <<"<no text>">>

(***************************************************************************)
(* chars: char::is_uppercase, char::is_lowercase, char::to_lowercase       *)
(***************************************************************************)
LowerAlpha ==
    <<"a","b","c","d","e","f","g","h","i","j","k","l","m",
      "n","o","p","q","r","s","t","u","v","w","x","y","z">>
UpperAlpha ==
    <<"A","B","C","D","E","F","G","H","I","J","K","L","M",
      "N","O","P","Q","R","S","T","U","V","W","X","Y","Z">>

\* U+0130 (LATIN CAPITAL LETTER I WITH DOT ABOVE) is uppercase and lowercases
\* to the two chars "i", U+0307 (COMBINING DOT ABOVE).
is_uppercase(ch) == (\E i \in 1..Len(UpperAlpha) : UpperAlpha[i] = ch) \/ ch = "U+0130"
is_lowercase(ch) == \E i \in 1..Len(LowerAlpha) : LowerAlpha[i] = ch
to_lowercase(ch) ==
    IF ch = "U+0130" THEN <<"i", "U+0307">>
    ELSE IF \E i \in 1..Len(UpperAlpha) : UpperAlpha[i] = ch
         THEN <<LowerAlpha[CHOOSE i \in 1..Len(UpperAlpha) : UpperAlpha[i] = ch]>>
         ELSE <<ch>>

(***************************************************************************)
(* fn quote                                                                *)
(***************************************************************************)
quote(x) == <<"'">> \o x \o <<"'">>

(***************************************************************************)
(* fn snake_case: the loop over s.chars(), with its two locals.            *)
(***************************************************************************)
RECURSIVE snake_loop(_, _, _, _)
snake_loop(s, i, prev_char, result) ==
    IF i > Len(s) THEN result
    ELSE LET ch == s[i]
             pushed == IF is_uppercase(ch) /\ is_lowercase(prev_char)
                       THEN result \o <<"_">>
                       ELSE result
         IN snake_loop(s, i + 1, ch, pushed \o to_lowercase(ch))

\* A slip in the initial value of prev_char (a lowercase char).
snake_case_lower_start(s) == snake_loop(s, 1, "a", <<>>)

snake_case(s) == snake_loop(s, 1, "_", <<>>)


(***************************************************************************)
(* enum SQLComp                                                            *)
(***************************************************************************)
SQLComp == {"EQ", "NEQ", "GT", "LT", "GEQ", "LEQ"}

(***************************************************************************)
(* The values that implement ToSql, as tagged records: a Numeric (an       *)
(* integer n), a &str or String (chars s), an Option<T> and a Vec<T>       *)
(* (elems: None or Some(v) for the Option, the elements for the Vec).      *)
(***************************************************************************)
Num(n) == [kind |-> "num", n |-> n, s |-> <<>>, elems |-> <<>>]
Str(s) == [kind |-> "str", n |-> 0, s |-> s, elems |-> <<>>]
Opt(o) == [kind |-> "option", n |-> 0, s |-> <<>>, elems |-> o]
Vec(es) == [kind |-> "vec", n |-> 0, s |-> <<>>, elems |-> es]

\* std::fmt::Display of an integer: its decimal digits, "-" first when negative.
DecDigit == <<"0","1","2","3","4","5","6","7","8","9">>
RECURSIVE digits(_)
digits(n) ==
    IF n < 10 THEN <<DecDigit[n + 1]>>
    ELSE digits(n \div 10) \o <<DecDigit[(n % 10) + 1]>>
display(n) == IF n < 0 THEN <<"-">> \o digits(-n) ELSE digits(n)

\* [String]::join
RECURSIVE join(_, _)
join(v, sep) ==
    IF Len(v) = 0 THEN <<>>
    ELSE IF Len(v) = 1 THEN v[1]
    ELSE v[1] \o sep \o join(Tail(v), sep)

(***************************************************************************)
(* trait ToSql: to_sql per implementation, and the dispatch on the type.   *)
(***************************************************************************)
RECURSIVE to_sql(_)

\* Leaves the literal unclosed.
str_to_sql_unclosed(self) == <<"'">> \o self.s

str_to_sql(self) == quote(self.s)

Numeric_to_sql(self) == display(self.n)

\* Parenthesizes a single element too.
Vec_to_sql_always_parens(self) ==
    LET v == [i \in 1..Len(self.elems) |-> to_sql(self.elems[i])]
    IN <<"(">> \o join(v, <<",">>) \o <<")">>

Vec_to_sql(self) ==
    LET v == [i \in 1..Len(self.elems) |-> to_sql(self.elems[i])]
    IN IF Len(v) = 1 THEN v[1]
       ELSE <<"(">> \o join(v, <<",">>) \o <<")">>

Option_to_sql(self) ==
    IF is_none(self.elems) THEN <<"N","U","L","L">>
    ELSE to_sql(unwrap(self.elems))

to_sql(self) ==
    CASE self.kind = "str" -> str_to_sql(self)
      [] self.kind = "num" -> Numeric_to_sql(self)
      [] self.kind = "vec" -> Vec_to_sql(self)
      [] self.kind = "option" -> Option_to_sql(self)

(***************************************************************************)
(* trait ToSql: the default operators and the overrides.                   *)
(***************************************************************************)
ToSql_op_eq == <<"=">>
ToSql_op_neq == <<"<",">">>
ToSql_op_gt == <<">">>
ToSql_op_lt == <<"<">>
ToSql_op_geq == <<">","=">>
ToSql_op_leq == <<"<","=">>

\* IN for every non-empty collection.
Vec_op_eq_nonempty(self) == IF Len(self.elems) > 0 THEN <<"I","N">> ELSE <<"=">>

Vec_op_eq(self) == IF Len(self.elems) > 1 THEN <<"I","N">> ELSE <<"=">>

Vec_op_neq(self) ==
    IF Len(self.elems) > 1 THEN <<"N","O","T"," ","I","N">> ELSE <<"<",">">>

RECURSIVE op_eq(_)
\* Delegates to the wrapped value when present.
Option_op_eq_delegating(self) ==
    IF is_none(self.elems) THEN <<"I","S">> ELSE op_eq(unwrap(self.elems))

Option_op_eq(self) == IF is_none(self.elems) THEN <<"I","S">> ELSE <<"=">>

Option_op_neq(self) ==
    IF is_none(self.elems) THEN <<"I","S"," ","N","O","T">> ELSE <<"<",">">>

op_eq(self) ==
    CASE self.kind = "vec" -> Vec_op_eq(self)
      [] self.kind = "option" -> Option_op_eq(self)
      [] OTHER -> ToSql_op_eq

op_neq(self) ==
    CASE self.kind = "vec" -> Vec_op_neq(self)
      [] self.kind = "option" -> Option_op_neq(self)
      [] OTHER -> ToSql_op_neq

op_gt(self) == ToSql_op_gt
op_lt(self) == ToSql_op_lt
op_geq(self) == ToSql_op_geq
op_leq(self) == ToSql_op_leq

\* The match of ToSql::compare.
operator_for(self, cmp) ==
    CASE cmp = "EQ" -> op_eq(self)
      [] cmp = "NEQ" -> op_neq(self)
      [] cmp = "GT" -> op_gt(self)
      [] cmp = "LT" -> op_lt(self)
      [] cmp = "GEQ" -> op_geq(self)
      [] cmp = "LEQ" -> op_leq(self)

compare(self, cmp) == operator_for(self, cmp) \o <<" ">> \o to_sql(self)

(***************************************************************************)
(* struct SQLFilter<T>, impl Filter for SQLFilter<T>                       *)
(***************************************************************************)
SQLFilter(column, value, cmp) == [column |-> column, filter |-> value, cmp |-> cmp]

\* Normalizes the column name as the projection's names are.
apply_filter_normalizing(self) ==
    snake_case(self.column) \o <<" ">> \o compare(self.filter, self.cmp)

apply_filter(self) == self.column \o <<" ">> \o compare(self.filter, self.cmp)

(***************************************************************************)
(* struct SQLable.  `this` is the assembler the variables hold.            *)
(***************************************************************************)
SQLable(tbl, c, f) == [table |-> tbl, cols |-> c, filter |-> f]

this == SQLable(table, cols, filter)

\* Pushes the comma after the last column too.
RECURSIVE select_loop_trailing_comma(_, _, _)
select_loop_trailing_comma(c, idx, result) ==
    IF idx >= Len(c) THEN result
    ELSE select_loop_trailing_comma(c, idx + 1, result \o snake_case(c[idx + 1]) \o <<",">>)

\* The loop of prepare_select; idx counts from 0 as enumerate() does.
RECURSIVE select_loop(_, _, _)
select_loop(c, idx, result) ==
    IF idx >= Len(c) THEN result
    ELSE LET pushed == result \o snake_case(c[idx + 1])
         IN select_loop(c, idx + 1,
                        IF idx < Len(c) - 1 THEN pushed \o <<",">> ELSE pushed)

prepare_select(self) ==
    IF is_none(self.cols) THEN <<"*">>
    ELSE LET c == unwrap(self.cols)
         IN IF Len(c) = 0 THEN <<"*">> ELSE select_loop(c, 0, <<>>)

prepare_filter(self) ==
    IF is_none(self.filter) THEN <<>>
    ELSE LET f == unwrap(self.filter)
         IN [i \in 1..Len(f) |-> apply_filter(f[i])]

\* Pushes AND before the first predicate too.
RECURSIVE where_loop_and_first(_, _, _)
where_loop_and_first(f, idx, whr) ==
    IF idx >= Len(f) THEN whr
    ELSE where_loop_and_first(f, idx + 1,
             whr \o <<" ", " ">> \o <<"A","N","D"," ">>
                 \o <<"(">> \o f[idx + 1] \o <<")">> \o <<"\n">>)

\* The loop of prepare that builds the WHERE section.
RECURSIVE where_loop(_, _, _)
where_loop(f, idx, whr) ==
    IF idx >= Len(f) THEN whr
    ELSE LET indented == whr \o <<" ", " ">>
             anded == IF idx > 0 THEN indented \o <<"A","N","D"," ">> ELSE indented
         IN where_loop(f, idx + 1, anded \o <<"(">> \o f[idx + 1] \o <<")">> \o <<"\n">>)

prepare(self) ==
    LET select == <<"S","E","L","E","C","T","\n"," "," ">> \o prepare_select(self) \o <<"\n">>
        from == <<"F","R","O","M"," ">> \o self.table \o <<"\n">>
        f == prepare_filter(self)
        whr == IF Len(f) # 0 THEN where_loop(f, 0, <<"W","H","E","R","E","\n">>) ELSE <<>>
    IN select \o from \o whr

(***************************************************************************)
(* The calls on an assembler.                                              *)
(***************************************************************************)
SQLable_new(tbl) ==
    /\ table' = tbl
    /\ cols' = None
    /\ filter' = None
    /\ hist' = [tbl |-> tbl, sel |-> None, fil |-> None, prev |-> call]
    /\ call' = "new"
    /\ ret' = NoText
    /\ UNCHANGED <<sqlfilter, name>>

\* Appends to the projection instead of replacing it.
SQLable_select_appending(c) ==
    /\ cols' = Some((IF is_none(cols) THEN <<>> ELSE unwrap(cols)) \o c)
    /\ hist' = [hist EXCEPT !.sel = Some(c), !.prev = call]
    /\ call' = "select"
    /\ ret' = NoText
    /\ UNCHANGED <<table, filter, sqlfilter, name>>

SQLable_select(c) ==
    /\ cols' = Some(c)
    /\ hist' = [hist EXCEPT !.sel = Some(c), !.prev = call]
    /\ call' = "select"
    /\ ret' = NoText
    /\ UNCHANGED <<table, filter, sqlfilter, name>>

SQLable_filter(f) ==
    /\ filter' = Some(f)
    /\ hist' = [hist EXCEPT !.fil = Some(f), !.prev = call]
    /\ call' = "filter"
    /\ ret' = NoText
    /\ UNCHANGED <<table, cols, sqlfilter, name>>

\* Consumes the predicates it renders.
SQLable_prepare_draining ==
    /\ ret' = prepare(this)
    /\ filter' = IF is_none(filter) THEN None ELSE Some(<<>>)
    /\ hist' = [hist EXCEPT !.prev = call]
    /\ call' = "prepare"
    /\ UNCHANGED <<table, cols, sqlfilter, name>>

SQLable_prepare ==
    /\ ret' = prepare(this)
    /\ hist' = [hist EXCEPT !.prev = call]
    /\ call' = "prepare"
    /\ UNCHANGED <<table, cols, filter, sqlfilter, name>>

(***************************************************************************)
(* The calls on a predicate and on its value.                              *)
(***************************************************************************)
Call_to_sql ==
    /\ ret' = to_sql(sqlfilter.filter)
    /\ call' = "to_sql"
    /\ UNCHANGED <<table, cols, filter, hist, sqlfilter, name>>

Call_operator_for ==
    /\ ret' = operator_for(sqlfilter.filter, sqlfilter.cmp)
    /\ call' = "operator_for"
    /\ UNCHANGED <<table, cols, filter, hist, sqlfilter, name>>

Call_compare ==
    /\ ret' = compare(sqlfilter.filter, sqlfilter.cmp)
    /\ call' = "compare"
    /\ UNCHANGED <<table, cols, filter, hist, sqlfilter, name>>

Call_apply_filter ==
    /\ ret' = apply_filter(sqlfilter)
    /\ call' = "apply_filter"
    /\ UNCHANGED <<table, cols, filter, hist, sqlfilter, name>>

Call_snake_case ==
    /\ ret' = snake_case(name)
    /\ call' = "snake_case"
    /\ UNCHANGED <<table, cols, filter, hist, sqlfilter, name>>

(***************************************************************************)
(* The inputs.                                                             *)
(***************************************************************************)
UserID == <<"U","s","e","r","I","D">>
alreadySnake_case ==
    <<"a","l","r","e","a","d","y","S","n","a","k","e","_","c","a","s","e">>

NameChars == {"a", "B", "_", "U+0130"}
Names == SeqsUpTo(NameChars, MaxNameLen) \cup {UserID, alreadySnake_case}

Ints == {0, 7, -12}
Strs == {<<>>, <<"a">>, <<"O","'","b">>}
Nums == {Num(n) : n \in Ints}
Texts == {Str(s) : s \in Strs}
Options(S) == {Opt(None)} \cup {Opt(Some(v)) : v \in S}
Vecs(S) == {Vec(es) : es \in SeqsUpTo(S, MaxVecLen)}
\* i32, &str, Option<i32>, Option<&str>, Option<Option<i32>>, Vec<i32>, Vec<&str>,
\* Vec<Option<i32>>, Option<Vec<i32>>, Vec<Vec<i32>>
Values ==
    Nums \cup Texts \cup Options(Nums) \cup Options(Texts)
    \cup Options({Opt(None)})
    \cup Vecs(Nums) \cup Vecs(Texts) \cup Vecs(Options({Num(7)}))
    \cup Options(Vecs(Nums)) \cup Vecs(Vecs({Num(7)}))

Columns == {<<"d">>, <<"e","F">>}
SQLFilters == {SQLFilter(c, v, k) : c \in Columns, v \in Values, k \in SQLComp}

\* Predicates of fn main: f1, f4, f5 (its column with an uppercase letter).
Preds ==
    { SQLFilter(<<"a">>, Num(1), "EQ"),
      SQLFilter(<<"d">>, Opt(None), "NEQ"),
      SQLFilter(<<"e","F">>, Vec(<<Num(1), Num(2), Num(3)>>), "EQ") }
Tables == {<<>>, <<"t","b","l">>, <<"T","b">>}
ColNames == {<<"a">>, UserID}

NoFilter == SQLFilter(<<>>, Num(0), "EQ")
NoHist == [tbl |-> <<>>, sel |-> None, fil |-> None, prev |-> "none"]

(***************************************************************************)
(* Spec: an assembler and the calls on it.                                 *)
(***************************************************************************)
Init ==
    /\ table \in Tables
    /\ cols = None
    /\ filter = None
    /\ hist = [tbl |-> table, sel |-> None, fil |-> None, prev |-> "none"]
    /\ call = "new"
    /\ ret = NoText
    /\ sqlfilter = NoFilter
    /\ name = <<>>

Next ==
    \/ \E tbl \in Tables : SQLable_new(tbl)
    \/ \E c \in SeqsUpTo(ColNames, MaxCols) : SQLable_select(c)
    \/ \E f \in SeqsUpTo(Preds, MaxPreds) : SQLable_filter(f)
    \/ SQLable_prepare

Spec == Init /\ [][Next]_vars

(***************************************************************************)
(* SpecValue: one predicate, rendered.                                     *)
(***************************************************************************)
InitValue ==
    /\ sqlfilter \in SQLFilters
    /\ call = "none"
    /\ ret = NoText
    /\ table = <<>>
    /\ cols = None
    /\ filter = None
    /\ hist = NoHist
    /\ name = <<>>

NextValue ==
    \/ Call_to_sql
    \/ Call_operator_for
    \/ Call_compare
    \/ Call_apply_filter

SpecValue == InitValue /\ [][NextValue]_vars

(***************************************************************************)
(* SpecSnake: one name, normalized.                                        *)
(***************************************************************************)
InitSnake ==
    /\ name \in Names
    /\ call = "none"
    /\ ret = NoText
    /\ table = <<>>
    /\ cols = None
    /\ filter = None
    /\ hist = NoHist
    /\ sqlfilter = NoFilter

NextSnake == Call_snake_case

SpecSnake == InitSnake /\ [][NextSnake]_vars

(***************************************************************************)
(* Properties.                                                             *)
(***************************************************************************)
StartsWith(s, p) == Len(p) <= Len(s) /\ SubSeq(s, 1, Len(p)) = p
EndsWith(s, p) == Len(p) <= Len(s) /\ SubSeq(s, Len(s) - Len(p) + 1, Len(s)) = p

\* The texts of v, joined by commas, built from the last one backwards.
RECURSIVE CommaJoined(_)
CommaJoined(v) ==
    IF Len(v) = 0 THEN <<>>
    ELSE IF Len(v) = 1 THEN v[1]
    ELSE CommaJoined(SubSeq(v, 1, Len(v) - 1)) \o <<",">> \o v[Len(v)]

\* The WHERE lines of predicate texts p[i..], the first of p with no keyword.
RECURSIVE WhereLines(_, _)
WhereLines(p, i) ==
    IF i > Len(p) THEN <<>>
    ELSE (IF i = 1 THEN <<" "," ","(">> ELSE <<" "," ","A","N","D"," ","(">>)
         \o p[i] \o <<")","\n">> \o WhereLines(p, i + 1)

PredicateTexts == [i \in 1..Len(unwrap(filter)) |-> apply_filter(unwrap(filter)[i])]

ExpectedWhere ==
    IF is_none(filter) \/ unwrap(filter) = <<>> THEN <<>>
    ELSE <<"W","H","E","R","E","\n">> \o WhereLines(PredicateTexts, 1)

FromLine == <<"F","R","O","M"," ">> \o table \o <<"\n">>

\* C1: prepare() emits no WHERE section when the predicate list is None or
\* empty, so that the text ends right after the FROM line; with n >= 1
\* predicates the text ends with WHERE and exactly n lines in the caller's
\* order, the first "  (p1)", every later one "  AND (pi)".
C1_WhereSection ==
    call = "prepare" => EndsWith(ret, FromLine \o ExpectedWhere)

C1_Witness ==
    /\ call = "prepare"
    /\ ~is_none(filter)
    /\ Len(unwrap(filter)) = 2
    /\ unwrap(filter)[1] # unwrap(filter)[2]

\* The name s with "_" before each uppercase char that follows a lowercase
\* char of s, every char lowercased.
RECURSIVE Underscored(_, _)
Underscored(s, i) ==
    IF i > Len(s) THEN <<>>
    ELSE (IF i > 1 /\ is_uppercase(s[i]) /\ is_lowercase(s[i - 1]) THEN <<"_">> ELSE <<>>)
         \o to_lowercase(s[i]) \o Underscored(s, i + 1)

ExpectedCols ==
    IF is_none(cols) \/ unwrap(cols) = <<>> THEN <<"*">>
    ELSE CommaJoined([i \in 1..Len(unwrap(cols)) |-> Underscored(unwrap(cols)[i], 1)])

\* C2: the column text of prepare() is "*" when the projection is None or
\* empty, otherwise the normalized names in order joined by single commas;
\* the FROM line holds the table name as stored.
C2_SelectAndFrom ==
    call = "prepare" =>
        StartsWith(ret, <<"S","E","L","E","C","T","\n"," "," ">> \o ExpectedCols
                        \o <<"\n">> \o <<"F","R","O","M"," ">> \o table \o <<"\n">>)

C2_Witness ==
    /\ call = "prepare"
    /\ cols = Some(<<UserID, <<"a">>>>)
    /\ table = <<"T","b">>

\* C3: prepare() leaves table, projection and predicates unchanged, and
\* a prepare() that follows a prepare() returns the same text.
C3_PrepareIsPure ==
    [][call' = "prepare" =>
          /\ UNCHANGED <<table, cols, filter>>
          /\ (call = "prepare" => ret' = ret)]_vars

C3_Witness ==
    /\ call = "prepare"
    /\ hist.prev = "prepare"
    /\ ~is_none(filter)
    /\ unwrap(filter) # <<>>

\* C4: select(c) and filter(f) replace the projection and the predicate list
\* and touch nothing else, so that the assembler is always the fresh one on
\* its table with the last select and the last filter applied.
C4_SettersOverwrite ==
    /\ [](this = SQLable(hist.tbl, hist.sel, hist.fil))
    /\ [][/\ call' = "select" => UNCHANGED <<table, filter>>
          /\ call' = "filter" => UNCHANGED <<table, cols>>]_vars

C4_Witness ==
    /\ call = "select"
    /\ hist.prev = "select"
    /\ cols = Some(<<UserID>>)
    /\ ~is_none(filter)

\* The predicate under SpecValue.
value == sqlfilter.filter
cmp == sqlfilter.cmp
column == sqlfilter.column

\* The operator of a plain scalar for each comparison kind.
StandardOperator(k) ==
    CASE k = "EQ" -> <<"=">>
      [] k = "NEQ" -> <<"<",">">>
      [] k = "GT" -> <<">">>
      [] k = "LT" -> <<"<">>
      [] k = "GEQ" -> <<">","=">>
      [] k = "LEQ" -> <<"<","=">>

\* C5: an absent optional value has literal NULL and operators IS / IS NOT;
\* a present one has the wrapped value's literal and operators = / <>,
\* whatever it wraps; the ordering operators are the standard ones either
\* way; so column d, kind not-equals, absent value renders d IS NOT NULL.
C5_OptionalValue ==
    value.kind = "option" =>
        /\ call = "to_sql" =>
              ret = IF value.elems = None THEN <<"N","U","L","L">>
                    ELSE to_sql(value.elems[1])
        /\ call = "operator_for" =>
              ret = IF value.elems = None /\ cmp = "EQ" THEN <<"I","S">>
                    ELSE IF value.elems = None /\ cmp = "NEQ" THEN <<"I","S"," ","N","O","T">>
                    ELSE StandardOperator(cmp)
        /\ (call = "apply_filter" /\ value.elems = None /\ cmp = "NEQ" /\ column = <<"d">>) =>
              ret = <<"d"," ","I","S"," ","N","O","T"," ","N","U","L","L">>

C5_Witness ==
    /\ call = "operator_for"
    /\ cmp = "EQ"
    /\ value = Opt(Some(Vec(<<Num(7), Num(-12)>>)))
    /\ ret = <<"=">>

\* C6: a collection of n elements has equals operator IN exactly when n > 1
\* (= otherwise), not-equals operator NOT IN exactly when n > 1 (<>
\* otherwise), and the standard ordering operators for every n, whatever the
\* operators of its elements.
C6_CollectionOperators ==
    (value.kind = "vec" /\ call = "operator_for") =>
        ret = IF Len(value.elems) > 1 /\ cmp = "EQ" THEN <<"I","N">>
              ELSE IF Len(value.elems) > 1 /\ cmp = "NEQ" THEN <<"N","O","T"," ","I","N">>
              ELSE StandardOperator(cmp)

C6_Witness ==
    /\ call = "operator_for"
    /\ cmp = "EQ"
    /\ value = Vec(<<Opt(None)>>)
    /\ ret = <<"=">>

\* C7: the literal of a collection of one element is that element's literal,
\* with no parentheses; of any other number of elements it is the elements'
\* literals in order, joined by commas, in parentheses: () for none.
C7_CollectionLiteral ==
    (value.kind = "vec" /\ call = "to_sql") =>
        LET lits == [i \in 1..Len(value.elems) |-> to_sql(value.elems[i])]
        IN /\ Len(lits) = 1 => ret = lits[1]
           /\ Len(lits) # 1 => ret = <<"(">> \o CommaJoined(lits) \o <<")">>
           /\ Len(lits) = 0 => ret = <<"(", ")">>

C7_Witness ==
    /\ call = "to_sql"
    /\ value = Vec(<<>>)
    /\ ret = <<"(", ")">>

\* C9: apply_filter() returns the column as supplied, a space, the value's
\* operator for the kind, a space, and the value's literal.
C9_PredicateText ==
    call = "apply_filter" =>
        ret = column \o <<" ">> \o operator_for(value, cmp) \o <<" ">> \o to_sql(value)

C9_Witness ==
    /\ call = "apply_filter"
    /\ column = <<"e","F">>
    /\ value = Vec(<<Num(0), Num(7)>>)
    /\ cmp = "NEQ"

\* C10: snake_case returns the name with every char lowercased and "_"
\* before exactly the uppercase chars that follow a lowercase char, never
\* before the first char; UserID gives user_id and alreadySnake_case gives
\* already_snake_case.
C10_SnakeCase ==
    call = "snake_case" =>
        /\ ret = Underscored(name, 1)
        /\ name = UserID => ret = <<"u","s","e","r","_","i","d">>
        /\ name = alreadySnake_case =>
              ret = <<"a","l","r","e","a","d","y","_","s","n","a","k","e","_","c","a","s","e">>

C10_Witness ==
    /\ call = "snake_case"
    /\ name = <<"B", "a", "B">>
    /\ ret = <<"b", "a", "_", "b">>

(***************************************************************************)
(* The syntax of a single SQL expression: a scalar literal (NULL, a        *)
(* number, a quoted string in which a quote is written twice) or a         *)
(* parenthesized list of scalar literals joined by commas.  A scanner      *)
(* returns the index after what it read, or 0 when it read nothing valid.  *)
(***************************************************************************)
IsDigit(ch) == \E i \in 1..Len(DecDigit) : DecDigit[i] = ch

RECURSIVE ScanDigits(_, _)
ScanDigits(s, i) == IF i <= Len(s) /\ IsDigit(s[i]) THEN ScanDigits(s, i + 1) ELSE i

ScanNumber(s, i) ==
    LET a == IF i <= Len(s) /\ s[i] = "-" THEN i + 1 ELSE i
        b == ScanDigits(s, a)
    IN IF b = a THEN 0
       ELSE IF b <= Len(s) /\ s[b] = "."
            THEN (IF ScanDigits(s, b + 1) = b + 1 THEN 0 ELSE ScanDigits(s, b + 1))
            ELSE b

\* i is inside a quoted string, after its opening quote.
RECURSIVE ScanString(_, _)
ScanString(s, i) ==
    IF i > Len(s) THEN 0
    ELSE IF s[i] # "'" THEN ScanString(s, i + 1)
    ELSE IF i + 1 <= Len(s) /\ s[i + 1] = "'" THEN ScanString(s, i + 2)
    ELSE i + 1

ScanScalar(s, i) ==
    IF i > Len(s) THEN 0
    ELSE IF s[i] = "'" THEN ScanString(s, i + 1)
    ELSE IF i + 3 <= Len(s) /\ SubSeq(s, i, i + 3) = <<"N","U","L","L">> THEN i + 4
    ELSE ScanNumber(s, i)

RECURSIVE ScanItems(_, _)
ScanItems(s, i) ==
    LET j == ScanScalar(s, i)
    IN IF j = 0 THEN 0
       ELSE IF j <= Len(s) /\ s[j] = "," THEN ScanItems(s, j + 1)
       ELSE j

IsScalarLiteral(s) == ScanScalar(s, 1) = Len(s) + 1
IsListLiteral(s) ==
    /\ Len(s) >= 3
    /\ s[1] = "("
    /\ ScanItems(s, 2) = Len(s)
    /\ s[Len(s)] = ")"
IsSingleExpression(s) == IsScalarLiteral(s) \/ IsListLiteral(s)

\* v renders as a scalar: it is no collection, or a collection of one such.
RECURSIVE RendersScalar(_)
RendersScalar(v) ==
    CASE v.kind = "vec" -> Len(v.elems) = 1 /\ RendersScalar(v.elems[1])
      [] v.kind = "option" -> v.elems = None \/ RendersScalar(v.elems[1])
      [] OTHER -> TRUE

\* No text of v holds a quote, no collection of v is empty, and a
\* collection of two or more elements holds only elements that render as
\* scalars.
RECURSIVE Plain(_)
Plain(v) ==
    CASE v.kind = "str" -> \A i \in 1..Len(v.s) : v.s[i] # "'"
      [] v.kind = "num" -> TRUE
      [] v.kind = "option" -> v.elems = None \/ Plain(v.elems[1])
      [] v.kind = "vec" ->
            /\ Len(v.elems) >= 1
            /\ \A i \in 1..Len(v.elems) : Plain(v.elems[i])
            /\ Len(v.elems) >= 2 => \A i \in 1..Len(v.elems) : RendersScalar(v.elems[i])

\* C8 as stated: the literal of every renderable value is a single SQL
\* expression, a scalar literal or a parenthesized, comma-joined list of
\* literals.
C8_EveryLiteralIsOneExpression ==
    call = "to_sql" => IsSingleExpression(ret)

\* C8, amended: the literal is a single SQL expression for every value in
\* which no text holds a single quote, no collection is empty, and every
\* collection of two or more elements holds only elements that render as
\* scalars.
C8_PlainLiteralIsOneExpression ==
    (call = "to_sql" /\ Plain(value)) => IsSingleExpression(ret)

C8_Witness ==
    /\ call = "to_sql"
    /\ value = Vec(<<Vec(<<Num(7)>>), Vec(<<Num(7)>>)>>)
    /\ Plain(value)
    /\ ret = <<"(", "7", ",", "7", ")">>

=============================================================================
